---- MODULE Spec2Model ----
\* Model of hdrv's ImageRenderer (src/src/view/ImageRenderer.cpp): the texture
\* cache kept by updateImages, the lazily created shader program and the GL
\* call sequence of paint, and the texturePosition / textureScale transforms.
\*
\* Images are identified by small positive integers (the address held by the
\* std::shared_ptr<Image>); 0 is the null shared_ptr.  A float is modelled as
\* <<m, e>>, the binary32 value m * 2^e, and float arithmetic rounds as IEEE 754
\* does.
EXTENDS Integers, Sequences, FiniteSets, TLC

\* ---------------------------------------------------------------- bounds
NumImages == 2      \* distinct Image objects the host owns
MaxDocs   == 2      \* longest document list handed to updateImages

\* ---------------------------------------------------------------- images
NoImage == 0
Images  == 1..NumImages

ImageWidth(i)    == CASE i = 1 -> 400 [] i = 2 -> 100 [] OTHER -> 64
ImageHeight(i)   == CASE i = 1 -> 600 [] i = 2 -> 100 [] OTHER -> 32
ImageChannels(i) == CASE i = 1 -> 4   [] i = 2 -> 3   [] OTHER -> 4

\* A document list: one element per ImageDocument*, holding doc->image().
RECURSIVE SeqsUpTo(_, _)
SeqsUpTo(S, n) ==
  IF n = 0 THEN {<<>>}
  ELSE LET shorter == SeqsUpTo(S, n - 1)
       IN shorter \cup {Append(s, x) : s \in {t \in shorter : Len(t) = n - 1}, x \in S}

DocLists == SeqsUpTo(Images, MaxDocs)

Range(s) == {s[k] : k \in 1..Len(s)}

\* ---------------------------------------------------------------- natural numbers of any size
\* The exact sum or product of two floats can need more than 32 bits, so exact
\* values are kept as digit sequences: base 2^12, least significant digit first,
\* no leading zero digit; <<>> is 0.
Abs(x) == IF x < 0 THEN -x ELSE x

Limb == 2^12

Digit(a) == IF a = <<>> THEN 0 ELSE Head(a)
Rest(a)  == IF a = <<>> THEN <<>> ELSE Tail(a)

RECURSIVE BigTrim(_)
BigTrim(a) ==
  IF a # <<>> /\ a[Len(a)] = 0 THEN BigTrim(SubSeq(a, 1, Len(a) - 1)) ELSE a

RECURSIVE BigOf(_)
BigOf(n) == IF n = 0 THEN <<>> ELSE <<n % Limb>> \o BigOf(n \div Limb)

RECURSIVE BigToInt(_)
BigToInt(a) == IF a = <<>> THEN 0 ELSE Head(a) + Limb * BigToInt(Tail(a))

RECURSIVE BigSum(_, _, _)
BigSum(a, b, carry) ==
  IF a = <<>> /\ b = <<>> THEN BigOf(carry)
  ELSE LET s == Digit(a) + Digit(b) + carry
       IN <<s % Limb>> \o BigSum(Rest(a), Rest(b), s \div Limb)

BigAdd(a, b) == BigSum(a, b, 0)

RECURSIVE BigDiff(_, _, _)
BigDiff(a, b, borrow) ==
  IF a = <<>> THEN <<>>
  ELSE LET s == Head(a) - Digit(b) - borrow
       IN <<(s + Limb) % Limb>> \o BigDiff(Tail(a), Rest(b), IF s < 0 THEN 1 ELSE 0)

\* a - b, for a >= b
BigSub(a, b) == BigTrim(BigDiff(a, b, 0))

RECURSIVE BigCmpFrom(_, _, _)
BigCmpFrom(a, b, k) ==
  IF k = 0 THEN 0
  ELSE IF a[k] < b[k] THEN -1
  ELSE IF a[k] > b[k] THEN 1
  ELSE BigCmpFrom(a, b, k - 1)

\* -1, 0 or 1 as a is less than, equal to or greater than b
BigCmp(a, b) ==
  IF Len(a) < Len(b) THEN -1
  ELSE IF Len(a) > Len(b) THEN 1
  ELSE BigCmpFrom(a, b, Len(a))

RECURSIVE BigTimes(_, _, _)
BigTimes(a, digit, carry) ==
  IF a = <<>> THEN BigOf(carry)
  ELSE LET p == Head(a) * digit + carry
       IN <<p % Limb>> \o BigTimes(Tail(a), digit, p \div Limb)

RECURSIVE BigMul(_, _)
BigMul(a, b) ==
  IF a = <<>> \/ b = <<>> THEN <<>>
  ELSE LET rest == BigMul(a, Tail(b))
       IN BigAdd(BigTrim(BigTimes(a, Head(b), 0)),
                 IF rest = <<>> THEN <<>> ELSE <<0>> \o rest)

\* a * 2^bits
BigShl(a, bits) ==
  IF a = <<>> THEN <<>>
  ELSE [k \in 1..(bits \div 12) |-> 0] \o BigTimes(a, 2^(bits % 12), 0)

\* a \div 2^bits
BigShr(a, bits) ==
  LET whole == bits \div 12
      part  == 2^(bits % 12)
      kept  == IF whole >= Len(a) THEN <<>> ELSE SubSeq(a, whole + 1, Len(a))
  IN BigTrim([k \in 1..Len(kept) |->
                kept[k] \div part
                  + (IF k < Len(kept) THEN kept[k + 1] % part ELSE 0) * (Limb \div part)])

\* The number of bits of n >= 0
RECURSIVE BitLen(_)
BitLen(n) ==
  IF n >= Limb THEN 12 + BitLen(n \div Limb)
  ELSE IF n >= 64 THEN 6 + BitLen(n \div 64)
  ELSE IF n >= 8 THEN 3 + BitLen(n \div 8)
  ELSE IF n >= 1 THEN 1 + BitLen(n \div 2)
  ELSE 0

BigBitLen(a) == IF a = <<>> THEN 0 ELSE 12 * (Len(a) - 1) + BitLen(a[Len(a)])

\* ---------------------------------------------------------------- exact values
\* The value (-1)^neg * mag * 2^e, mag a natural number of any size.
ExactOf(n) == [neg |-> n < 0, mag |-> BigOf(Abs(n)), e |-> 0]

ExactNeg(x) == [x EXCEPT !.neg = ~@]

ExactMul(x, y) == [neg |-> x.neg # y.neg, mag |-> BigMul(x.mag, y.mag), e |-> x.e + y.e]

\* (-1)^negA * a + (-1)^negB * b, times 2^e
ExactSum(negA, a, negB, b, e) ==
  IF negA = negB THEN [neg |-> negA, mag |-> BigAdd(a, b), e |-> e]
  ELSE IF BigCmp(a, b) >= 0 THEN [neg |-> negA, mag |-> BigSub(a, b), e |-> e]
  ELSE [neg |-> negB, mag |-> BigSub(b, a), e |-> e]

ExactAlign(x, y, e) ==
  ExactSum(x.neg, BigShl(x.mag, x.e - e), y.neg, BigShl(y.mag, y.e - e), e)

ExactAdd(x, y) == ExactAlign(x, y, IF x.e < y.e THEN x.e ELSE y.e)

\* ---------------------------------------------------------------- float arithmetic
\* float is IEEE binary32.  A float is <<m, e>>, the value m * 2^e with m odd and
\* |m| < 2^24, or <<0, 0>>.  Each operation gives the float nearest to the exact
\* result, ties to the even significand.  The exponent is not bounded: overflow
\* to infinity, subnormal values and the sign of zero are left out.
RECURSIVE FloatValue(_, _)
FloatValue(m, e) ==
  IF m = 0 THEN <<0, 0>>
  ELSE IF m % Limb = 0 THEN FloatValue(m \div Limb, e + 12)
  ELSE IF m % 64 = 0 THEN FloatValue(m \div 64, e + 6)
  ELSE IF m % 8 = 0 THEN FloatValue(m \div 8, e + 3)
  ELSE IF m % 2 = 0 THEN FloatValue(m \div 2, e + 1)
  ELSE <<m, e>>

FloatNeg(a) == <<-a[1], a[2]>>

Exact(a) == [neg |-> a[1] < 0, mag |-> BigOf(Abs(a[1])), e |-> a[2]]

FloatSigned(neg, value) == IF neg THEN FloatNeg(value) ELSE value

\* The leading 24 bits m of x, rounded up when the bits dropped are more than
\* half a unit of m (cmp > 0), or just half and m is odd.
FloatRoundUp(x, drop, m, cmp) ==
  FloatSigned(x.neg, FloatValue(IF cmp > 0 \/ (cmp = 0 /\ m % 2 = 1) THEN m + 1 ELSE m,
                                x.e + drop))

FloatRoundBits(x, drop, q) ==
  FloatRoundUp(x, drop, BigToInt(q),
               BigCmp(BigSub(x.mag, BigShl(q, drop)), BigShl(<<1>>, drop - 1)))

FloatRoundAt(x, drop) ==
  IF drop <= 0 THEN FloatSigned(x.neg, FloatValue(BigToInt(x.mag), x.e))
  ELSE FloatRoundBits(x, drop, BigShr(x.mag, drop))

\* The float nearest to the exact value x: x itself when its significand has at
\* most 24 bits, else its leading 24 bits, rounded by the bits dropped.
FloatRound(x) == FloatRoundAt(x, BigBitLen(x.mag) - 24)

\* float(n) for an int n
FloatOf(n) == FloatRound(ExactOf(n))

FloatAdd(a, b) == FloatRound(ExactAdd(Exact(a), Exact(b)))
FloatSub(a, b) == FloatRound(ExactAdd(Exact(a), ExactNeg(Exact(b))))
FloatMul(a, b) == FloatRound(ExactMul(Exact(a), Exact(b)))

\* Division: the quotient of two floats is no finite binary fraction, so its
\* significand comes from a long division.
\* n / d = (n' / d') * 2^e with d' <= n' < 2 * d', for k the difference of the
\* bit lengths of n and d
FloatScaled(n, d, k) ==
  IF n < d THEN [n |-> 2 * n, d |-> d, e |-> k - 1] ELSE [n |-> n, d |-> d, e |-> k]

FloatNormalBy(n, d, k) ==
  FloatScaled(IF k < 0 THEN n * 2^(-k) ELSE n, IF k > 0 THEN d * 2^k ELSE d, k)

FloatNormal(n, d) == FloatNormalBy(n, d, BitLen(n) - BitLen(d))

\* Long division: the next bits of the quotient, up to six at a time, with the
\* remainder r < d.
RECURSIVE FloatBits(_, _, _, _)
FloatBits(q, r, d, bits) ==
  IF bits = 0 THEN [q |-> q, r |-> r]
  ELSE IF bits >= 6 THEN FloatBits(q * 64 + (r * 64) \div d, (r * 64) % d, d, bits - 6)
  ELSE FloatBits(q * 2 + (r * 2) \div d, (r * 2) % d, d, bits - 1)

\* The quotient q of 24 bits, rounded up when the remainder r is more than half
\* of d, or just half and q is odd.
FloatQuotientUp(q, r, d, e) ==
  FloatValue(IF 2 * r > d \/ (2 * r = d /\ q % 2 = 1) THEN q + 1 ELSE q, e)

FloatQuotientOf(start, digits, t) ==
  FloatQuotientUp(digits.q, digits.r, start.d, start.e + t - 23)

FloatQuotientFrom(start, t) ==
  FloatQuotientOf(start, FloatBits(1, start.n - start.d, start.d, 23), t)

\* The float nearest to (n / d) * 2^t, for integers 0 < n, d < 2^24.
FloatQuotient(n, d, t) == FloatQuotientFrom(FloatNormal(n, d), t)

\* a / b for floats a and b, b # 0
FloatDiv(a, b) ==
  IF a[1] = 0 THEN <<0, 0>>
  ELSE FloatSigned((a[1] < 0) # (b[1] < 0),
                   FloatQuotient(Abs(a[1]), Abs(b[1]), a[2] - b[2]))

\* QVector2D operators used by the transforms: componentwise, in float
VecSub(u, v)     == <<FloatSub(u[1], v[1]), FloatSub(u[2], v[2])>>
VecAdd(u, v)     == <<FloatAdd(u[1], v[1]), FloatAdd(u[2], v[2])>>
VecDivS(u, k)    == <<FloatDiv(u[1], k), FloatDiv(u[2], k)>>
VecDiv(u, v)     == <<FloatDiv(u[1], v[1]), FloatDiv(u[2], v[2])>>

\* A faulty variant that negates neither pan component.
texturePositionNoFlip(regionSize, imageSize, imagePosition) ==
  LET offset == VecDivS(VecSub(regionSize, imageSize), FloatOf(2))
  IN VecDiv(VecAdd(offset, imagePosition), regionSize)

\* Lines 65-69
texturePosition(regionSize, imageSize, imagePosition) ==
  LET offset == VecDivS(VecSub(regionSize, imageSize), FloatOf(2))
  IN VecDiv(VecAdd(offset, <<FloatNeg(imagePosition[1]), imagePosition[2]>>), regionSize)

\* Faulty variants: both components divided by the width of the region, and the
\* size left in pixels.
textureScaleByWidth(regionSize, imageSize) == VecDivS(imageSize, regionSize[1])

textureScalePixels(regionSize, imageSize) == imageSize

\* Lines 71-74
textureScale(regionSize, imageSize) == VecDiv(imageSize, regionSize)

\* A faulty variant that hands the shader gamma itself.
gammaUniformRaw(gamma) == gamma

\* Line 123: 1.0f / settings_.gamma
gammaUniform(gamma) == FloatDiv(FloatOf(1), gamma)

\* ---------------------------------------------------------------- shaders
\* Line 27: the four corners of the quad, and line 10: coords = vertices * 0.5 + 0.5
vertexData == <<<<-1, -1>>, <<1, -1>>, <<-1, 1>>, <<1, 1>>>>

vertexCoords(vertex) ==
  <<FloatAdd(FloatMul(FloatOf(vertex[1]), FloatValue(1, -1)), FloatValue(1, -1)),
    FloatAdd(FloatMul(FloatOf(vertex[2]), FloatValue(1, -1)), FloatValue(1, -1))>>

\* Line 22: the point of the texture sampled at coords, (coords - position) / scale
sampleCoord(coords, position, scale) == VecDiv(VecSub(coords, position), scale)

\* ---------------------------------------------------------------- textures and program
format(i)      == IF ImageChannels(i) = 3 THEN "RGBFormat" ELSE "RGBAFormat"
pixelFormat(i) == IF ImageChannels(i) = 3 THEN "RGB" ELSE "RGBA"

\* The default-constructed std::unique_ptr<QOpenGLTexture> that operator[] inserts.
NullTexture == [id |-> 0]
IsNull(tex) == tex.id = 0

createTexture(i, id) ==
  [id          |-> id,
   width       |-> ImageWidth(i),
   height      |-> ImageHeight(i),
   format      |-> format(i),
   pixelFormat |-> pixelFormat(i),
   pixelType   |-> "Float32",
   minFilter   |-> "LinearMipMapLinear",
   magFilter   |-> "Linear",
   wrapMode    |-> "ClampToBorder",
   mipMaps     |-> TRUE]

\* ---------------------------------------------------------------- colours
\* clearColor_ is a QColor: red(), green() and blue() are integers in 0..255.
Black  == [red |-> 0,   green |-> 0,   blue |-> 0, alpha |-> 255]
Orange == [red |-> 255, green |-> 128, blue |-> 0, alpha |-> 255]

\* Line 128: the arguments of glClearColor, the integer channels converted to float.
clearColorArgs(color) ==
  <<FloatOf(color.red), FloatOf(color.green), FloatOf(color.blue), FloatOf(1)>>

NullProgram == [id |-> 0, linked |-> FALSE]

createProgram(id, linkOk) == [id |-> id, linked |-> linkOk]

Event(op, arg) == [op |-> op, arg |-> arg]

\* ---------------------------------------------------------------- std::map operations
\* textures_ is a function from the keys present to the texture stored there.
MapIndex(map, key) ==                       \* operator[]: finds, or inserts a null entry
  IF key \in DOMAIN map THEN map ELSE map @@ (key :> NullTexture)

MapErase(map, key) == [k \in DOMAIN map \ {key} |-> map[k]]

EmptyMap == [k \in {} |-> NullTexture]

RECURSIVE SortedKeys(_)
SortedKeys(keys) ==                         \* iteration order of the map: ascending keys
  IF keys = {} THEN <<>>
  ELSE LET least == CHOOSE k \in keys : \A other \in keys : k <= other
       IN <<least>> \o SortedKeys(keys \ {least})

\* ---------------------------------------------------------------- state
VARIABLES
  current_,          \* std::shared_ptr<Image> current_
  textures_,         \* map from image to texture
  program_,          \* std::unique_ptr<QOpenGLShaderProgram> program_
  renderRegion_,     \* [offset, size] in pixels
  settings_,         \* [scale, position, gamma]
  clearColor_,       \* background colour
  gl,                \* what the renderer holds bound in the GL context
  programsCreated,   \* calls of createProgram so far
  painted,           \* paint has been called
  crashed,           \* the process died in undefined behaviour
  call,              \* the latest call and its argument
  referenced,        \* the images of the latest updateImages list
  log,               \* what the latest call did, in order
  delta,             \* how an updateImages list relates to the list of the call before
  nullRead           \* the two ints in the process's memory where a null current_ points

\* What the renderer reads and never writes.
viewVars  == <<renderRegion_, settings_, clearColor_, nullRead>>
vars      == <<current_, textures_, program_, renderRegion_, settings_, clearColor_, gl,
               programsCreated, painted, crashed, call, referenced, log, delta, nullRead>>

Call(op, arg) == [op |-> op, arg |-> arg]

NoDelta == [same |-> FALSE, removed |-> {}]

RemoveAt(s, k) == SubSeq(s, 1, k - 1) \o SubSeq(s, k + 1, Len(s))

\* The list is the previous call's list again, or that list with one document removed
\* (removed: the images of the documents whose removal gives this list).
Delta(previous, images) ==
  IF previous.op # "updateImages" THEN NoDelta
  ELSE [same    |-> previous.arg = images,
        removed |-> {previous.arg[k] : k \in {j \in 1..Len(previous.arg) :
                                                 RemoveAt(previous.arg, j) = images}}]

\* ---------------------------------------------------------------- setCurrent
SetCurrent(image) ==
  /\ ~crashed
  /\ current_' = image
  /\ call' = Call("setCurrent", image)
  /\ log' = <<>>
  /\ delta' = NoDelta
  /\ UNCHANGED <<textures_, program_, gl, programsCreated, painted, crashed,
                 referenced>>
  /\ UNCHANGED viewVars

\* ---------------------------------------------------------------- updateImages
\* Faulty variants of the erase loop, used to show what the properties below detect.
EraseLoopKeepsAll(map, keys, images, trace) == [textures |-> map, log |-> trace]

RECURSIVE EraseLoopErasesAll(_, _, _, _)
EraseLoopErasesAll(map, keys, images, trace) ==
  IF keys = <<>> THEN [textures |-> map, log |-> trace]
  ELSE EraseLoopErasesAll(MapErase(map, Head(keys)), Tail(keys), images,
                          Append(trace, Event("erase", Head(keys))))

RECURSIVE EraseLoopInverted(_, _, _, _)
EraseLoopInverted(map, keys, images, trace) ==
  IF keys = <<>> THEN [textures |-> map, log |-> trace]
  ELSE LET key   == Head(keys)
           found == \E k \in 1..Len(images) : images[k] = key
       IN IF found
          THEN EraseLoopInverted(MapErase(map, key), Tail(keys), images,
                                 Append(trace, Event("erase", key)))
          ELSE EraseLoopInverted(map, Tail(keys), images, trace)

RECURSIVE EraseLoop(_, _, _, _)
EraseLoop(map, keys, images, trace) ==
  IF keys = <<>> THEN [textures |-> map, log |-> trace]
  ELSE LET key   == Head(keys)
           found == \E k \in 1..Len(images) : images[k] = key
       IN IF ~found
          THEN EraseLoop(MapErase(map, key), Tail(keys), images,
                         Append(trace, Event("erase", key)))
          ELSE EraseLoop(map, Tail(keys), images, trace)

\* The identity of a newly made texture object: one no live texture has.
FreshId(map) ==
  LET used == {map[k].id : k \in DOMAIN map}
  IN CHOOSE id \in 1..(Cardinality(DOMAIN map) + 1) :
       /\ id \notin used
       /\ \A lower \in 1..(id - 1) : lower \in used

\* Faulty variants of the create loop: one without the test of line 95, one that
\* works on a copy of the map's slot and so never stores the texture.
RECURSIVE CreateLoopAlways(_, _, _, _)
CreateLoopAlways(map, images, k, trace) ==
  IF k > Len(images) THEN [textures |-> map, log |-> trace]
  ELSE LET image  == images[k]
           looked == MapIndex(map, image)
       IN CreateLoopAlways([looked EXCEPT ![image] = createTexture(image, FreshId(looked))],
                           images, k + 1,
                           Append(trace, Event("createTexture", image)))

RECURSIVE CreateLoopByValue(_, _, _, _)
CreateLoopByValue(map, images, k, trace) ==
  IF k > Len(images) THEN [textures |-> map, log |-> trace]
  ELSE LET image  == images[k]
           looked == MapIndex(map, image)
       IN IF IsNull(looked[image])
          THEN CreateLoopByValue(looked, images, k + 1,
                                 Append(trace, Event("createTexture", image)))
          ELSE CreateLoopByValue(looked, images, k + 1, trace)

RECURSIVE CreateLoop(_, _, _, _)
CreateLoop(map, images, k, trace) ==
  IF k > Len(images) THEN [textures |-> map, log |-> trace]
  ELSE LET image  == images[k]
           looked == MapIndex(map, image)
       IN IF IsNull(looked[image])
          THEN CreateLoop([looked EXCEPT ![image] = createTexture(image, FreshId(looked))],
                          images, k + 1,
                          Append(trace, Event("createTexture", image)))
          ELSE CreateLoop(looked, images, k + 1, trace)

\* A faulty variant that runs the create loop before the erase loop.
updateImagesCreateFirst(map, images) ==
  LET created == CreateLoop(map, images, 1, <<>>)
  IN EraseLoop(created.textures, SortedKeys(DOMAIN created.textures), images, created.log)

updateImages(map, images) ==
  LET erased == EraseLoop(map, SortedKeys(DOMAIN map), images, <<>>)
  IN CreateLoop(erased.textures, images, 1, erased.log)

\* A faulty variant that drops current_ when it evicts the current image's texture.
UpdateImagesResetsCurrent(images) ==
  /\ ~crashed
  /\ LET done == updateImages(textures_, images)
     IN /\ textures_' = done.textures
        /\ log' = done.log
  /\ current_' = IF current_ \in Range(images) THEN current_ ELSE NoImage
  /\ call' = Call("updateImages", images)
  /\ referenced' = Range(images)
  /\ delta' = Delta(call, images)
  /\ UNCHANGED <<program_, gl, programsCreated, painted, crashed>>
  /\ UNCHANGED viewVars

UpdateImages(images) ==
  /\ ~crashed
  /\ LET done == updateImages(textures_, images)
     IN /\ textures_' = done.textures
        /\ log' = done.log
  /\ call' = Call("updateImages", images)
  /\ referenced' = Range(images)
  /\ delta' = Delta(call, images)
  /\ UNCHANGED <<current_, program_, gl, programsCreated, painted, crashed>>
  /\ UNCHANGED viewVars

\* ---------------------------------------------------------------- GL state
GLIdle == [program |-> 0, attrib0 |-> FALSE, unit0 |-> 0]

GLApply(state, e) ==
  CASE e.op = "program.bind" ->
         \* QOpenGLShaderProgram::bind makes the program current only if it linked
         IF e.arg.linked THEN [state EXCEPT !.program = e.arg.id] ELSE state
    [] e.op = "program.release"               -> [state EXCEPT !.program = 0]
    [] e.op = "program.enableAttributeArray"  -> [state EXCEPT !.attrib0 = TRUE]
    [] e.op = "program.disableAttributeArray" -> [state EXCEPT !.attrib0 = FALSE]
    [] e.op = "texture.bind"                  -> [state EXCEPT !.unit0 = e.arg]
    [] e.op = "texture.release"               -> [state EXCEPT !.unit0 = 0]
    [] OTHER                                  -> state

RECURSIVE GLRun(_, _)
GLRun(state, trace) ==
  IF trace = <<>> THEN state ELSE GLRun(GLApply(state, Head(trace)), Tail(trace))

\* ---------------------------------------------------------------- paint
\* A faulty test that compiles again when the program did not link.
NeedsProgramRetry(prog) == ~prog.linked

\* Line 103: if (!program_)
NeedsProgram(prog) == prog = NullProgram

\* Lines 103-110: lazy creation of the program, then the binds.
PaintHead(prog, created) ==
  (IF created THEN <<Event("initializeOpenGLFunctions", 0), Event("createProgram", prog)>>
   ELSE <<>>)
  \o <<Event("program.bind", prog),
       Event("program.enableAttributeArray", 0),
       Event("program.setAttributeArray", 0)>>

\* A faulty ending that leaves the texture bound to unit 0.
PaintReleaseNoTexture ==
  <<Event("program.disableAttributeArray", 0),
    Event("program.release", 0)>>

\* Lines 133-135: the releases that end paint.
PaintRelease ==
  <<Event("texture.release", 0),
    Event("program.disableAttributeArray", 0),
    Event("program.release", 0)>>

\* Lines 115-135, for a texture with id tex and an image of the given pixel size.
PaintBody(tex, imageDims, region, settings, clearColor) ==
  LET regionSize == <<FloatOf(region.size[1]), FloatOf(region.size[2])>>
      imageSize  == <<FloatMul(FloatOf(imageDims[1]), settings.scale),
                      FloatMul(FloatOf(imageDims[2]), settings.scale)>>
  IN <<Event("texture.setBorderColor", clearColor),
       Event("texture.bind", tex),
       Event("uniform.tex", 0),
       Event("uniform.position", texturePosition(regionSize, imageSize, settings.position)),
       Event("uniform.scale", textureScale(regionSize, imageSize)),
       Event("uniform.gamma", gammaUniform(settings.gamma)),
       Event("glViewport", <<region.offset[1], region.offset[2],
                             region.size[1], region.size[2]>>),
       Event("glDisable", "GL_DEPTH_TEST"),
       Event("glClearColor", clearColorArgs(clearColor)),
       Event("glClear", "GL_COLOR_BUFFER_BIT"),
       Event("glDrawArrays", <<"GL_TRIANGLE_STRIP", 0, 4>>)>>
     \o PaintRelease

\* textures_[current_] of line 114: the map after the lookup.
PaintLookup(map, image) == MapIndex(map, image)

\* image.width() and image.height() of line 116: through a null current_ a
\* process that survives the read gets the two ints that its memory holds there.
PaintDims(image, atNull) ==
  IF image = NoImage THEN atNull ELSE <<ImageWidth(image), ImageHeight(image)>>

\* Dereferencing a null current_ (line 113) or the null texture that the lookup of
\* line 114 found or inserted is undefined behaviour.
Undefined(map, image) == image = NoImage \/ IsNull(PaintLookup(map, image)[image])

\* The line at which a process that dies in paint may die.  With a null current_ a
\* build that checks the dereference stops at line 113, before the lookup of line
\* 114 has run; any other build, and any death on a null texture, comes after the
\* lookup and so after its insertion.
CrashLines(image) == IF image = NoImage THEN {113, 114} ELSE {114}

Paint ==
  /\ ~crashed
  /\ \E linkOk  \in (IF NeedsProgram(program_) THEN BOOLEAN ELSE {program_.linked}),
        survives \in (IF Undefined(textures_, current_) THEN BOOLEAN ELSE {TRUE}) :
     \E diedAt \in (IF survives THEN {114} ELSE CrashLines(current_)) :
       LET created == NeedsProgram(program_)
           prog    == IF created THEN createProgram(programsCreated + 1, linkOk)
                      ELSE program_
           looked  == PaintLookup(textures_, current_)
           dims    == PaintDims(current_, nullRead)
           trace   == IF survives
                      THEN PaintHead(prog, created)
                           \o PaintBody(looked[current_].id, dims, renderRegion_,
                                        settings_, clearColor_)
                      ELSE PaintHead(prog, created)
       IN /\ program_' = prog
          /\ programsCreated' = IF created THEN programsCreated + 1 ELSE programsCreated
          \* undefined behaviour: the process dies before line 118, or runs on
          /\ crashed' = ~survives
          /\ textures_' = IF diedAt = 113 THEN textures_ ELSE looked
          /\ log' = trace
          /\ gl' = GLRun(gl, trace)
  /\ painted' = TRUE
  /\ call' = Call("paint", 0)
  /\ delta' = NoDelta
  /\ UNCHANGED <<current_, referenced>>
  /\ UNCHANGED viewVars

\* ---------------------------------------------------------------- specification
Zero == FloatOf(0)
One  == FloatOf(1)

\* Contents of the memory at the null address for the runs checked: zeros, or a
\* size that no image has.
DefaultNullReads == {<<0, 0>>, <<5, 9>>}

DefaultRegion   == [offset |-> <<0, 0>>, size |-> <<800, 600>>]
DefaultSettings == [scale |-> One, position |-> <<Zero, Zero>>, gamma |-> One]

InitCache ==
  /\ current_ = NoImage
  /\ textures_ = EmptyMap
  /\ program_ = NullProgram
  /\ gl = GLIdle
  /\ programsCreated = 0
  /\ painted = FALSE
  /\ crashed = FALSE
  /\ call = Call("init", 0)
  /\ referenced = {}
  /\ log = <<>>
  /\ delta = NoDelta

Init ==
  /\ InitCache
  /\ renderRegion_ = DefaultRegion
  /\ settings_ = DefaultSettings
  /\ clearColor_ = Black
  /\ nullRead \in DefaultNullReads

Next ==
  \/ \E image \in Images \cup {NoImage} : SetCurrent(image)
  \/ \E images \in DocLists : UpdateImages(images)
  \/ Paint

Spec == Init /\ [][Next]_vars

\* ---------------------------------------------------------------- display inputs
\* The host sets renderRegion_, settings_ and clearColor_ before it paints; the
\* second specification starts from each combination of these and keeps one
\* document per image open.
RenderRegions ==
  {[offset |-> <<0, 0>>,   size |-> <<800, 600>>],
   [offset |-> <<10, 20>>, size |-> <<100, 100>>]}

\* scale 1 and 1.1f, the float nearest to 1.1
Scales == {One, FloatValue(9227469, -23)}
\* pan (0, 0) and (-3.5, 5)
Pans   == {<<Zero, Zero>>, <<FloatValue(-7, -1), FloatOf(5)>>}
\* gamma 1, 2 and 2.2f, the float nearest to 2.2
Gammas == {One, FloatOf(2), FloatValue(9227469, -22)}
Colors == {Black, Orange}
\* More contents of the memory at the null address: a negative size among them,
\* and the size of a real image.
NullReads ==
  DefaultNullReads \cup {<<1, 1>>, <<-1, 7>>, <<ImageWidth(2), ImageHeight(2)>>}

DisplaySettings ==
  {[scale |-> sc, position |-> pan, gamma |-> g] : sc \in Scales, pan \in Pans, g \in Gammas}

OpenDocuments == [k \in 1..NumImages |-> k]

InitView ==
  /\ InitCache
  /\ renderRegion_ \in RenderRegions
  /\ settings_ \in DisplaySettings
  /\ clearColor_ \in Colors
  /\ nullRead \in NullReads

NextView ==
  \/ \E image \in Images \cup {NoImage} : SetCurrent(image)
  \/ UpdateImages(OpenDocuments)
  \/ Paint

SpecView == InitView /\ [][NextView]_vars


\* ================================================================ properties
Count(trace, op, arg) ==
  Cardinality({k \in 1..Len(trace) : trace[k].op = op /\ trace[k].arg = arg})

Has(trace, op) == \E k \in 1..Len(trace) : trace[k].op = op

Creations(trace, image) == Count(trace, "createTexture", image)
Erased(trace, image)    == Count(trace, "erase", image) > 0

HasTexture(map, image) == image \in DOMAIN map /\ ~IsNull(map[image])

\* ---------------------------------------------------------------- C1
\* C1: after every updateImages(docs), the keys of the texture cache are exactly
\* the images referenced by the documents of docs.
C1_KeysAreReferenced ==
  call.op = "updateImages" => DOMAIN textures_ = Range(call.arg)

\* An updateImages call that both evicted an entry and created one.
C1_Witness ==
  /\ call.op = "updateImages"
  /\ Has(log, "erase")
  /\ Has(log, "createTexture")
  /\ DOMAIN textures_ = Range(call.arg)

\* ---------------------------------------------------------------- C2
\* C2: updateImages is idempotent: a second consecutive call with the same list
\* creates no texture and leaves the cache, keys and textures, as the first left it.
C2_Idempotent ==
  [][(call.op = "updateImages" /\ call'.op = "updateImages" /\ call'.arg = call.arg)
       => (textures_' = textures_ /\ ~Has(log', "createTexture") /\ ~Has(log', "erase"))]_vars

\* The second of two consecutive calls with the same non-empty list has returned.
C2_Witness ==
  /\ call.op = "updateImages"
  /\ delta.same
  /\ call.arg # <<>>
  /\ log = <<>>
  /\ \A i \in Range(call.arg) : HasTexture(textures_, i)

\* ---------------------------------------------------------------- C3
\* C3: an image that has a texture is never uploaded again while it stays
\* referenced: no call creates a texture for it, the same texture object stays
\* under its key, and an entry goes away only in an updateImages call whose list
\* has no document of that image.
C3_NoReupload ==
  [][\A i \in DOMAIN textures_ :
       /\ (i \notin DOMAIN textures_')
            => (call'.op = "updateImages" /\ i \notin Range(call'.arg))
       /\ HasTexture(textures_, i)
            => /\ Creations(log', i) = 0
               /\ (i \in DOMAIN textures_') => textures_'[i] = textures_[i]
               /\ (call'.op = "updateImages" /\ i \in Range(call'.arg))
                    => (i \in DOMAIN textures_' /\ ~Erased(log', i))]_vars

\* An updateImages call kept the texture of a listed image, made by an earlier
\* call, in place while it erased or created the entry of the other image.
C3_Witness ==
  /\ call.op = "updateImages"
  /\ \E i \in Range(call.arg) :
       /\ HasTexture(textures_, i)
       /\ Creations(log, i) = 0
       /\ Has(log, "erase") \/ Has(log, "createTexture")

\* ---------------------------------------------------------------- C4
\* C4: paint is a read-only lookup: it leaves the key set of the cache and the
\* textures stored in it as they were, whatever the current image is.
C4_PaintReadOnly ==
  [][(call'.op = "paint" /\ current_ \in Images) => textures_' = textures_]_vars

\* ---------------------------------------------------------------- C5
\* C5 as stated: after updateImages with the previous list less one document, the
\* image of the removed document has no cache entry.
C5_RemovedIsFreed ==
  call.op = "updateImages" => \A i \in delta.removed : i \notin DOMAIN textures_

\* C5: after updateImages with the previous list less one document, the image of
\* the removed document has no cache entry unless a remaining document references
\* the same image, in which case its entry and texture are kept.
C5_RemovedIsFreedUnlessShared ==
  call.op = "updateImages" =>
    \A i \in delta.removed :
      IF i \in Range(call.arg)
      THEN HasTexture(textures_, i) /\ Creations(log, i) = 0 /\ ~Erased(log, i)
      ELSE i \notin DOMAIN textures_ /\ Erased(log, i)

\* A document was removed, no other document has its image, and the entry is gone.
C5_Witness ==
  /\ call.op = "updateImages"
  /\ \E i \in delta.removed :
       i \notin Range(call.arg) /\ i \notin DOMAIN textures_ /\ Erased(log, i)

\* ---------------------------------------------------------------- C6
\* C6: the shader program is created exactly once, by the first paint: none
\* exists before it, and it is the program every later paint uses, linked or not.
C6_ProgramOnce ==
  /\ ~painted => (program_ = NullProgram /\ programsCreated = 0)
  /\ painted  => (program_ # NullProgram /\ programsCreated = 1 /\ program_.id = 1)
  /\ call.op # "paint" => ~Has(log, "createProgram")
  /\ call.op = "paint" =>
       \E k \in 1..Len(log) : log[k].op = "program.bind" /\ log[k].arg = program_

\* A later paint has reused a program that failed to link.
C6_Witness ==
  /\ call.op = "paint"
  /\ ~crashed
  /\ ~Has(log, "createProgram")
  /\ ~program_.linked
  /\ programsCreated = 1

\* ---------------------------------------------------------------- C7
\* C7: when paint returns, the program, attribute array 0 and texture unit 0 that
\* it bound or enabled are released again.
C7_ReleasedOnReturn ==
  (call.op = "paint" /\ ~crashed) =>
    /\ gl = GLIdle
    /\ Count(log, "program.bind", program_) = Cardinality({k \in 1..Len(log) :
                                                 log[k].op = "program.release"})
    /\ Count(log, "program.enableAttributeArray", 0)
         = Count(log, "program.disableAttributeArray", 0)
    /\ Cardinality({k \in 1..Len(log) : log[k].op = "texture.bind"})
         = Cardinality({k \in 1..Len(log) : log[k].op = "texture.release"})

\* paint has returned after binding a linked program and a real texture.
C7_Witness ==
  /\ call.op = "paint"
  /\ ~crashed
  /\ program_.linked
  /\ HasTexture(textures_, current_)
  /\ Count(log, "texture.bind", textures_[current_].id) = 1
  /\ gl = GLIdle

\* ---------------------------------------------------------------- C8
\* C8: when the latest updateImages list references the current image, paint
\* finds a non-null texture for it and binds that texture; paint creates none.
C8_PaintFindsTexture ==
  /\ call.op = "paint" => ~Has(log, "createTexture")
  /\ (call.op = "paint" /\ current_ \in referenced) =>
       /\ ~crashed
       /\ HasTexture(textures_, current_)
       /\ Count(log, "texture.bind", textures_[current_].id) = 1

\* paint has run for a current image that the latest list references.
C8_Witness ==
  /\ call.op = "paint"
  /\ current_ \in referenced
  /\ ~crashed
  /\ HasTexture(textures_, current_)

\* ---------------------------------------------------------------- C9
\* C9: one entry and one texture per image: an updateImages call creates exactly
\* one texture for a listed image that had none, however many documents of the
\* list reference it, none for one that had, and no two keys share a texture.
C9_OneTexturePerImage ==
  [][call'.op = "updateImages" =>
       /\ \A i \in Range(call'.arg) :
            /\ HasTexture(textures_', i)
            /\ Creations(log', i) = IF HasTexture(textures_, i) THEN 0 ELSE 1
       /\ \A i, j \in DOMAIN textures_' :
            textures_'[i].id = textures_'[j].id => i = j]_vars

\* Two documents of one list reference the same image, and one texture was made.
C9_Witness ==
  /\ call.op = "updateImages"
  /\ \E i \in Range(call.arg) :
       /\ Cardinality({k \in 1..Len(call.arg) : call.arg[k] = i}) >= 2
       /\ Creations(log, i) = 1
       /\ HasTexture(textures_, i)

\* ---------------------------------------------------------------- C10
Uniform(trace, name) ==
  (CHOOSE e \in Range(trace) : e.op = name).arg

\* Exact values, against which the uniforms are measured.
ExactSub(x, y)   == ExactAdd(x, ExactNeg(y))
ExactAbs(x)      == [x EXCEPT !.neg = FALSE]
ExactShift(x, k) == [x EXCEPT !.e = @ + k]
ExactSign(x)     == IF x.mag = <<>> THEN 0 ELSE IF x.neg THEN -1 ELSE 1
ExactLeq(x, y)   == ExactSign(ExactSub(x, y)) <= 0

RECURSIVE LowZeros(_)
LowZeros(n) ==
  IF n % 64 = 0 THEN 6 + LowZeros(n \div 64)
  ELSE IF n % 2 = 0 THEN 1 + LowZeros(n \div 2)
  ELSE 0

RECURSIVE BigLowZeros(_)
BigLowZeros(a) == IF Head(a) = 0 THEN 12 + BigLowZeros(Tail(a)) ELSE LowZeros(Head(a))

\* The exact value x is a float: its significand has at most 24 bits.
IsFloat(x) == x.mag = <<>> \/ BigBitLen(x.mag) - BigLowZeros(x.mag) <= 24

\* The exponent E with 2^E <= |x| / d < 2^(E + 1), for x # 0 and d > 0
Binade(x, d) ==
  LET guess == (BigBitLen(x.mag) + x.e) - (BigBitLen(d.mag) + d.e)
  IN IF ExactLeq(ExactShift(d, guess), ExactAbs(x)) THEN guess ELSE guess - 1

\* |s * d - x|, the distance of s from x / d, times d
Distance(s, x, d) == ExactAbs(ExactSub(ExactMul(Exact(s), d), x))

\* s is x / d as one float division gives it (d > 0): a float of the binade of
\* x / d no further than half a unit in the last place from the quotient.
Nearest(s, x, d) ==
  IF x.mag = <<>> THEN s = <<0, 0>>
  ELSE LET E == Binade(x, d)
       IN /\ s[1] # 0
          /\ Abs(s[1]) < 2^24
          /\ s[1] % 2 = 1
          /\ s[2] >= E - 23
          /\ ExactLeq(Distance(s, x, d), ExactShift(d, E - 24))

\* s is x / d up to the rounding of the float operations that lead to it:
\* |s - x / d| <= 2^-22 * size / d, each operation being off by at most 2^-24 of
\* its result.
UpToRounding(s, x, d, size) ==
  /\ Abs(s[1]) < 2^24
  /\ ExactLeq(Distance(s, x, d), ExactShift(size, -22))

\* p is ((region - pixels * scale) / 2 + sign * pan) / region in float arithmetic:
\* up to rounding, and the nearest float when only the last division rounds.
CenteredBy(p, region, pixels, scale, pan, sign) ==
  LET size   == ExactOf(region)
      image  == ExactMul(ExactOf(pixels), Exact(scale))
      margin == ExactSub(size, image)
      shift  == IF sign < 0 THEN ExactNeg(Exact(pan)) ELSE Exact(pan)
      sum    == ExactAdd(ExactShift(margin, -1), shift)
  IN /\ UpToRounding(p, sum, size,
                     ExactAdd(size, ExactAdd(ExactAbs(image), ExactAbs(shift))))
     /\ (IsFloat(image) /\ IsFloat(margin) /\ IsFloat(sum)) => Nearest(p, sum, size)

\* p is (region - pixels * scale) / (2 * region) in float arithmetic
Centered(p, region, pixels, scale) ==
  LET size   == ExactOf(region)
      image  == ExactMul(ExactOf(pixels), Exact(scale))
      margin == ExactSub(size, image)
      twice  == ExactShift(size, 1)
  IN /\ UpToRounding(p, margin, twice, ExactShift(ExactAdd(size, ExactAbs(image)), 1))
     /\ (IsFloat(image) /\ IsFloat(margin)) => Nearest(p, margin, twice)

QuotientOf(s, region, pixels, scale) ==
  LET size  == ExactOf(region)
      image == ExactMul(ExactOf(pixels), Exact(scale))
  IN /\ UpToRounding(s, image, size, ExactAbs(image))
     /\ IsFloat(image) => Nearest(s, image, size)

NearestReciprocal(g, gamma) ==
  IF gamma[1] = 1 THEN g = <<1, -gamma[2]>>
  ELSE Nearest(g, ExactOf(1), Exact(gamma))

\* C12: the gamma uniform of every paint is 1 / settings.gamma as the float
\* division gives it: 1/2 for gamma 2, 1 for gamma 1, and the binary32 nearest to
\* the reciprocal when that is not itself a float.
C12_GammaUniform ==
  (call.op = "paint" /\ ~crashed) =>
    LET g == Uniform(log, "uniform.gamma")
    IN /\ NearestReciprocal(g, settings_.gamma)
       /\ settings_.gamma = FloatOf(2) => g = FloatValue(1, -1)
       /\ settings_.gamma = One => g = One

\* paint has set the gamma uniform to 1/2 under gamma 2.
C12_Witness ==
  /\ call.op = "paint"
  /\ ~crashed
  /\ HasTexture(textures_, current_)
  /\ settings_.gamma = FloatOf(2)
  /\ Uniform(log, "uniform.gamma") = FloatValue(1, -1)

\* ---------------------------------------------------------------- C13
\* The coords of the four corners of the quad and of two points inside it.
SampleCoords ==
  {vertexCoords(vertexData[k]) : k \in 1..Len(vertexData)}
    \cup {<<FloatValue(1, -1), FloatDiv(FloatOf(1), FloatOf(3))>>,
          <<FloatValue(1, -2), FloatValue(3, -2)>>}

IdentityView ==
  /\ current_ # NoImage
  /\ ImageWidth(current_) = 100
  /\ ImageHeight(current_) = 100
  /\ renderRegion_.size = <<100, 100>>
  /\ settings_ = [scale |-> One, position |-> <<Zero, Zero>>, gamma |-> One]

\* C13: painting a 100x100 image into a 100x100 region at scale 1, pan (0,0) and
\* gamma 1 sets scale (1,1), position (0,0) and gamma exponent 1, so the shader
\* samples the texture at coords itself.
C13_IdentityView ==
  (call.op = "paint" /\ ~crashed /\ IdentityView) =>
    /\ Uniform(log, "uniform.scale") = <<One, One>>
    /\ Uniform(log, "uniform.position") = <<Zero, Zero>>
    /\ Uniform(log, "uniform.gamma") = One
    /\ \A coords \in SampleCoords :
         sampleCoord(coords, Uniform(log, "uniform.position"),
                     Uniform(log, "uniform.scale")) = coords

\* paint has drawn the 100x100 image into the 100x100 region with these settings.
C13_Witness ==
  /\ call.op = "paint"
  /\ ~crashed
  /\ IdentityView
  /\ HasTexture(textures_, current_)
  /\ Has(log, "glDrawArrays")

\* ---------------------------------------------------------------- C14
\* The calls of one paint, in the order of lines 108-135.
PaintOrder ==
  <<"program.bind", "program.enableAttributeArray", "program.setAttributeArray",
    "texture.setBorderColor", "texture.bind",
    "uniform.tex", "uniform.position", "uniform.scale", "uniform.gamma",
    "glViewport", "glDisable", "glClearColor", "glClear", "glDrawArrays",
    "texture.release", "program.disableAttributeArray", "program.release">>

\* The calls of the latest paint after the creation of the program, by name.
IssuedOps ==
  LET skip == IF Has(log, "createProgram") THEN 2 ELSE 0
  IN [k \in 1..(Len(log) - skip) |-> log[k + skip].op]

Index(ops, name) == CHOOSE k \in 1..Len(ops) : ops[k] = name

\* A paint that returns issues exactly PaintOrder: the draw after the clear and
\* after every uniform, the releases after the draw.
PaintOrderHolds ==
  (call.op = "paint" /\ ~crashed) =>
    /\ IssuedOps = PaintOrder
    /\ \A name \in {"uniform.tex", "uniform.position", "uniform.scale", "uniform.gamma",
                    "glClear", "glViewport", "glDisable"} :
         Index(IssuedOps, name) < Index(IssuedOps, "glDrawArrays")
    /\ \A name \in {"texture.release", "program.disableAttributeArray", "program.release"} :
         Index(IssuedOps, "glDrawArrays") < Index(IssuedOps, name)
    /\ Uniform(log, "texture.setBorderColor") = clearColor_
    /\ Uniform(log, "uniform.tex") = 0
    /\ Uniform(log, "glViewport") = <<renderRegion_.offset[1], renderRegion_.offset[2],
                                      renderRegion_.size[1], renderRegion_.size[2]>>
    /\ Uniform(log, "glDisable") = "GL_DEPTH_TEST"
    /\ Uniform(log, "glDrawArrays") = <<"GL_TRIANGLE_STRIP", 0, 4>>

\* The colour a channel of glClearColor stands for: GL clamps it to [0, 1].
Clamp01(x) ==
  IF x[1] < 0 THEN Zero
  ELSE IF ExactLeq(ExactOf(1), Exact(x)) THEN One
  ELSE x

\* The red, green and blue of a QColor, each out of 255.
ChannelsOf(color) == <<color.red, color.green, color.blue>>

\* The buffer is cleared to the background colour: each channel of the clear
\* colour is the float nearest to the channel of clearColor_ as a fraction of 255.
ClearsToBackground ==
  (call.op = "paint" /\ ~crashed /\ HasTexture(textures_, current_)) =>
    LET args == Uniform(log, "glClearColor")
    IN \A k \in 1..3 :
         Nearest(Clamp01(args[k]), ExactOf(ChannelsOf(clearColor_)[k]), ExactOf(255))

\* C14: every paint issues its GL calls in the stated order, with the border
\* colour of the texture set to the background colour, the viewport set to the
\* region and the colour buffer cleared to the background colour before the draw.
C14_PaintSequence == PaintOrderHolds /\ ClearsToBackground

\* ---------------------------------------------------------------- C15
\* C15: within one updateImages call every entry that no listed document
\* references is evicted before the first texture is created, so no image is both
\* created and evicted in the call and no eviction follows a creation.
C15_EvictBeforeCreate ==
  [][call'.op = "updateImages" =>
       /\ \A j, k \in 1..Len(log') :
            (log'[j].op = "erase" /\ log'[k].op = "createTexture") => j < k
       /\ \A i \in DOMAIN textures_ \ Range(call'.arg) : Erased(log', i)
       /\ \A i \in Images \cup {NoImage} :
            /\ Erased(log', i) => (i \in DOMAIN textures_ /\ i \notin Range(call'.arg))
            /\ ~(Erased(log', i) /\ Creations(log', i) > 0)]_vars

\* One updateImages call has evicted an entry and then created a texture.
C15_Witness ==
  /\ call.op = "updateImages"
  /\ \E j, k \in 1..Len(log) :
       /\ log[j].op = "erase"
       /\ log[k].op = "createTexture"
       /\ j < k
       /\ log[j].arg \in Images
       /\ log[j].arg \notin DOMAIN textures_
       /\ HasTexture(textures_, log[k].arg)

\* ---------------------------------------------------------------- C16
\* C16: in every reachable state every entry of the texture cache holds a
\* non-null texture.
C16_NoNullEntry ==
  ~crashed => \A i \in DOMAIN textures_ \cap Images : ~IsNull(textures_[i])

\* ---------------------------------------------------------------- C17
\* C17: setCurrent changes current_ and nothing else: no texture is created or
\* evicted and the cache, the program and the GL bindings stay as they were;
\* updateImages changes the cache and leaves current_, the program and the GL
\* bindings as they were, also when it evicts the texture of the current image.
C17_Frames ==
  [][/\ call'.op = "setCurrent" =>
          /\ current_' = call'.arg
          /\ textures_' = textures_
          /\ log' = <<>>
          /\ <<program_, programsCreated, gl, painted, referenced>>'
               = <<program_, programsCreated, gl, painted, referenced>>
          /\ viewVars' = viewVars
     /\ call'.op = "updateImages" =>
          /\ current_' = current_
          /\ <<program_, programsCreated, gl, painted>>'
               = <<program_, programsCreated, gl, painted>>
          /\ viewVars' = viewVars
          /\ \A k \in 1..Len(log') : log'[k].op \in {"erase", "createTexture"}]_vars

\* updateImages has evicted the texture of the current image, which is still current.
C17_Witness ==
  /\ call.op = "updateImages"
  /\ current_ \in Images
  /\ Erased(log, current_)
  /\ current_ \notin DOMAIN textures_
  /\ program_ # NullProgram

====
